---------------------------- MODULE Spec2Model ----------------------------
(***************************************************************************)
(* UtteranceRejectionClassifier                                            *)
(* (src/rasa/nlu/classifiers/utterance_rejection_classifier.py).           *)
(*                                                                         *)
(* Python dictionaries are functions whose DOMAIN is the set of keys that  *)
(* are present; a list is a sequence.  Confidences and thresholds are      *)
(* written in hundredths (0.7 is 70).  A Python bool returned by a method  *)
(* that can also raise is one of the strings "True", "False", or the name  *)
(* of the exception raised ("KeyError", "TypeError", "AttributeError").    *)
(***************************************************************************)
EXTENDS Integers, Sequences, FiniteSets, TLC

VARIABLES
    supplied_config,               \* history: the config argument of create
    component_config,              \* self.component_config
    intent_required_entities_map,  \* self.intent_required_entities_map
    messages,                      \* the caller's list of Message.data, mutated in place
    outcome,                       \* "constructed", or how the last process call ended
    prev_messages,                 \* history: messages as they were when the last call began
    verdicts,                      \* history: per message, what the last call's loop did with it
    prev_verdicts,                 \* history: verdicts of the call before the last
    first_domain,                  \* history: the first domain that was not None, or None
    last_domain,                   \* history: the domain argument of the last call
    calls                          \* history: number of process calls made

vars == <<supplied_config, component_config, intent_required_entities_map, messages, outcome,
          prev_messages, verdicts, prev_verdicts, first_domain, last_domain, calls>>

-----------------------------------------------------------------------------
(* Bounds of the model *)

MaxBatch == 2       \* longest list of messages handed to process
MaxCalls == 2       \* process calls per classifier
MaxRanking == 2     \* longest intent_ranking of an incoming message
MaxEntities == 2    \* longest entities list of an incoming message
MaxEvaluatorRanking == 3   \* longest intent_ranking handed to the threshold evaluator
MaxPredicted == 3          \* longest entities list handed to the entity check

-----------------------------------------------------------------------------
(* Keys and constants *)

ENABLED_KEY == "enabled"
THRESHOLDS_KEY == "thresholds"
METHOD_KEY == "method"
FORCE_FINAL_ENABLED_KEY == "force_final_enabled"
EXCLUDED_INTENTS_KEY == "excluded_intents"
REQUIRE_ENTITIES_ENABLED_KEY == "require_entities_enabled"
DEFAULT_UTTERANCE_REJECTION_REQUIRE_ENTITIES_ENABLED_VALUE == TRUE

DEFAULT_THRESHOLD_KEY == "default"
AMBIGUITY_THRESHOLD_KEY == "ambiguity_threshold"
UNEXPECTED_UPON_REQUESTED_SLOT_KEY == "unexpected_upon_requested_slot"
CUSTOM_THRESHOLDS_KEY == "custom"

\* rasa.shared.nlu.constants (imported, lines 12-20)
INTENT == "intent"
INTENT_NAME_KEY == "name"
INTENT_RANKING_KEY == "intent_ranking"
PREDICTED_CONFIDENCE_KEY == "confidence"
ENTITIES == "entities"
ENTITY_ATTRIBUTE_TYPE == "entity"
ENTITY_ATTRIBUTE_ROLE == "role"
ENTITY_ATTRIBUTE_GROUP == "group"
REQUIRE_ENTITIES_KEY == "require_entities"
KEY_INTENTS == "intents"
IS_FINAL == "is_final"
TEXT == "text"

\* rasa.core.constants / rasa.shared.constants (imported, lines 21-31); the
\* values the tests pin down are the tests' (test_defaults), the threshold's
\* value is set outside the two source files and no claim depends on it.
DEFAULT_UTTERANCE_REJECTION_ENABLED_VALUE == TRUE
DEFAULT_UTTERANCE_REJECTION_THRESHOLD == 30
DEFAULT_UTTERANCE_REJECTION_AMBIGUITY_THRESHOLD == 10
DEFAULT_UTTERANCE_REJECTION_METHOD == "Ignore"
DEFAULT_UTTERANCE_REJECTION_FORCE_FINAL_VALUE == TRUE
DEFAULT_UTTERANCE_REJECTION_EXCLUDED_INTENTS == <<"nlu_fallback">>
DEFAULT_UTTERANCE_REJECTION_CUSTOM_THRESHOLD == <<>>
DEFAULT_UTTERANCE_REJECTION_INTENT_NAME == "nlu_fallback"

\* Python's None: as an object (a domain, a normalized entity) and as the
\* value of a string-valued attribute
None == [py_none |-> TRUE]
NoneStr == "None"

\* float 1.0, the confidence an intent_ranking entry without one is read as
ONE == 100

-----------------------------------------------------------------------------
(* Dictionaries and lists *)

Get(d, k, default) == IF k \in DOMAIN d THEN d[k] ELSE default

\* {**a, **b}: b's keys win, a nested dictionary is replaced whole
DictMerge(a, b) == b @@ a

\* d with d[k] = v
DictSet(d, k, v) == (k :> v) @@ d

Range(s) == {s[i] : i \in DOMAIN s}

RECURSIVE SelectSeqBy(_, _)
\* [e for e in s if e.name not in excluded]
SelectSeqBy(s, excluded) ==
    IF s = <<>> THEN <<>>
    ELSE IF Head(s)[INTENT_NAME_KEY] \in excluded
         THEN SelectSeqBy(Tail(s), excluded)
         ELSE <<Head(s)>> \o SelectSeqBy(Tail(s), excluded)

RECURSIVE ListMinus(_, _)
\* [e for e in a if e not in b]
ListMinus(a, b) ==
    IF a = <<>> THEN <<>>
    ELSE IF Head(a) \in Range(b)
         THEN ListMinus(Tail(a), b)
         ELSE <<Head(a)>> \o ListMinus(Tail(a), b)

-----------------------------------------------------------------------------
(* Construction *)

get_default_config ==
    [enabled |-> DEFAULT_UTTERANCE_REJECTION_ENABLED_VALUE,
     thresholds |->
        [default |-> DEFAULT_UTTERANCE_REJECTION_THRESHOLD,
         ambiguity_threshold |-> DEFAULT_UTTERANCE_REJECTION_AMBIGUITY_THRESHOLD,
         custom |-> DEFAULT_UTTERANCE_REJECTION_CUSTOM_THRESHOLD],
     require_entities_enabled |-> DEFAULT_UTTERANCE_REJECTION_REQUIRE_ENTITIES_ENABLED_VALUE,
     method |-> DEFAULT_UTTERANCE_REJECTION_METHOD,
     force_final_enabled |-> DEFAULT_UTTERANCE_REJECTION_FORCE_FINAL_VALUE,
     excluded_intents |-> DEFAULT_UTTERANCE_REJECTION_EXCLUDED_INTENTS]

\* __init__: self.component_config = {**self.get_default_config(), **config}
init_component_config(config) == DictMerge(get_default_config, config)

\* create: return cls(config)
create(config) == init_component_config(config)

-----------------------------------------------------------------------------
(* The requirement index *)

\* An element of a require_entities list is {"str": s}, {"dict": d} or
\* {"other": x} here: the tag is what isinstance() reads.
normalize_entity(entity) ==
    IF "dict" \in DOMAIN entity THEN entity["dict"]
    ELSE IF "str" \in DOMAIN entity THEN (ENTITY_ATTRIBUTE_TYPE :> entity["str"])
    ELSE None

normalize_entities(required_entities) ==
    [i \in DOMAIN required_entities |-> normalize_entity(required_entities[i])]

RECURSIVE process_domain_items(_, _, _)
\* for intent_name, value in domain_intent.items(): ...   (names: the keys left)
process_domain_items(map, domain_intent, names) ==
    IF names = {} THEN map
    ELSE LET intent_name == CHOOSE n \in names : TRUE
             value == domain_intent[intent_name]
             map1 == IF REQUIRE_ENTITIES_KEY \in DOMAIN value
                     THEN DictSet(map, intent_name,
                                  normalize_entities(value[REQUIRE_ENTITIES_KEY]))
                     ELSE map
         IN process_domain_items(map1, domain_intent, names \ {intent_name})

RECURSIVE process_domain_intents(_, _)
\* for domain_intent in domain_intents: if isinstance(domain_intent, dict): ...
\* An element of the intents list is {"str": name} or {"dict": {name: {...}}}.
process_domain_intents(map, domain_intents) ==
    IF domain_intents = <<>> THEN map
    ELSE LET domain_intent == Head(domain_intents)
             map1 == IF "dict" \in DOMAIN domain_intent
                     THEN process_domain_items(map, domain_intent["dict"],
                                               DOMAIN domain_intent["dict"])
                     ELSE map
         IN process_domain_intents(map1, Tail(domain_intents))

\* __process_domain without its test for an empty index: every domain handed
\* in is read
process_domain_rebuilding(map, domain) ==
    IF domain # None
    THEN process_domain_intents(map, domain[KEY_INTENTS])
    ELSE map

\* __process_domain: the value of self.intent_required_entities_map afterwards
process_domain(map, domain) ==
    IF map = <<>> /\ domain # None
    THEN process_domain_intents(map, domain[KEY_INTENTS])
    ELSE map

-----------------------------------------------------------------------------
(* The decision *)

reject_intent(confidence) ==
    [name |-> DEFAULT_UTTERANCE_REJECTION_INTENT_NAME, confidence |-> confidence]

\* __intent_is_excluded reading the default list instead of the configured one
intent_is_excluded_by_default(config, message) ==
    IF message[INTENT][INTENT_NAME_KEY]
          \in Range(DEFAULT_UTTERANCE_REJECTION_EXCLUDED_INTENTS)
    THEN "True"
    ELSE "False"

intent_is_excluded(config, message) ==
    IF EXCLUDED_INTENTS_KEY \notin DOMAIN config THEN "False"
    ELSE IF message[INTENT][INTENT_NAME_KEY] \in Range(config[EXCLUDED_INTENTS_KEY])
         THEN "True"
         ELSE "False"

nlu_confidence_below_threshold(config, message) ==
    IF DEFAULT_THRESHOLD_KEY \notin DOMAIN config[THRESHOLDS_KEY] THEN "KeyError"
    ELSE IF message[INTENT][PREDICTED_CONFIDENCE_KEY]
              < config[THRESHOLDS_KEY][DEFAULT_THRESHOLD_KEY]
         THEN "True"
         ELSE "False"

\* _nlu_prediction_ambiguous comparing with <= instead of <
nlu_prediction_ambiguous_inclusive(config, message) ==
    LET intents == SelectSeqBy(Get(message, INTENT_RANKING_KEY, <<>>),
                               Range(config[EXCLUDED_INTENTS_KEY]))
    IN IF Len(intents) >= 2
       THEN LET first_confidence == Get(intents[1], PREDICTED_CONFIDENCE_KEY, ONE)
                second_confidence == Get(intents[2], PREDICTED_CONFIDENCE_KEY, ONE)
                difference == first_confidence - second_confidence
            IN IF AMBIGUITY_THRESHOLD_KEY \notin DOMAIN config[THRESHOLDS_KEY]
               THEN "KeyError"
               ELSE IF difference <= config[THRESHOLDS_KEY][AMBIGUITY_THRESHOLD_KEY]
                    THEN "True"
                    ELSE "False"
       ELSE "False"

\* the bool of the returned pair; the difference is only logged
nlu_prediction_ambiguous(config, message) ==
    LET intents == SelectSeqBy(Get(message, INTENT_RANKING_KEY, <<>>),
                               Range(config[EXCLUDED_INTENTS_KEY]))
    IN IF Len(intents) >= 2
       THEN LET first_confidence == Get(intents[1], PREDICTED_CONFIDENCE_KEY, ONE)
                second_confidence == Get(intents[2], PREDICTED_CONFIDENCE_KEY, ONE)
                difference == first_confidence - second_confidence
            IN IF AMBIGUITY_THRESHOLD_KEY \notin DOMAIN config[THRESHOLDS_KEY]
               THEN "KeyError"
               ELSE IF difference < config[THRESHOLDS_KEY][AMBIGUITY_THRESHOLD_KEY]
                    THEN "True"
                    ELSE "False"
       ELSE "False"

\* lines 176-187: what follows the threshold comparison
ambiguity_step(config, message) ==
    LET ambiguous_prediction == nlu_prediction_ambiguous(config, message)
    IN IF ambiguous_prediction = "KeyError" THEN "KeyError"
       ELSE IF ambiguous_prediction = "True" THEN "False"
       ELSE "True"

\* __is_above_thresholds returning True as soon as the custom threshold is met
is_above_thresholds_custom_only(config, message) ==
    LET nlu_confidence == message[INTENT][PREDICTED_CONFIDENCE_KEY]
        message_intent_name == message[INTENT][INTENT_NAME_KEY]
        thresholds == config[THRESHOLDS_KEY]
    IN IF /\ CUSTOM_THRESHOLDS_KEY \in DOMAIN thresholds
          /\ message_intent_name \in DOMAIN thresholds[CUSTOM_THRESHOLDS_KEY]
       THEN IF nlu_confidence < thresholds[CUSTOM_THRESHOLDS_KEY][message_intent_name]
            THEN "False"
            ELSE "True"
       ELSE LET below == nlu_confidence_below_threshold(config, message)
            IN IF below = "KeyError" THEN "KeyError"
               ELSE IF below = "True" THEN "False"
               ELSE ambiguity_step(config, message)

is_above_thresholds(config, message) ==
    LET nlu_confidence == message[INTENT][PREDICTED_CONFIDENCE_KEY]
        message_intent_name == message[INTENT][INTENT_NAME_KEY]
        thresholds == config[THRESHOLDS_KEY]
    IN IF /\ CUSTOM_THRESHOLDS_KEY \in DOMAIN thresholds
          /\ message_intent_name \in DOMAIN thresholds[CUSTOM_THRESHOLDS_KEY]
       THEN IF nlu_confidence < thresholds[CUSTOM_THRESHOLDS_KEY][message_intent_name]
            THEN "False"
            ELSE ambiguity_step(config, message)
       ELSE LET below == nlu_confidence_below_threshold(config, message)
            IN IF below = "KeyError" THEN "KeyError"
               ELSE IF below = "True" THEN "False"
               ELSE ambiguity_step(config, message)

extract_relevant_keys(entity) ==
    [entity |-> Get(entity, ENTITY_ATTRIBUTE_TYPE, NoneStr),
     role |-> Get(entity, ENTITY_ATTRIBUTE_ROLE, NoneStr),
     group |-> Get(entity, ENTITY_ATTRIBUTE_GROUP, NoneStr)]

\* __contains_required_entities without its extra_entities
contains_required_entities_missing_only(map, message) ==
    LET intent_name == message[INTENT][INTENT_NAME_KEY]
    IN IF intent_name \notin DOMAIN map THEN "True"
       ELSE IF None \in Range(map[intent_name]) THEN "AttributeError"
       ELSE IF ENTITIES \notin DOMAIN message THEN "TypeError"
       ELSE LET required_entities ==
                    [i \in DOMAIN map[intent_name] |->
                        extract_relevant_keys(map[intent_name][i])]
                predicted_entities ==
                    [i \in DOMAIN message[ENTITIES] |->
                        extract_relevant_keys(message[ENTITIES][i])]
                missing_entities == ListMinus(required_entities, predicted_entities)
            IN IF Len(missing_entities) > 0
               THEN "False"
               ELSE "True"

contains_required_entities(map, message) ==
    LET intent_name == message[INTENT][INTENT_NAME_KEY]
    IN IF intent_name \notin DOMAIN map THEN "True"
       ELSE IF None \in Range(map[intent_name]) THEN "AttributeError"
       ELSE IF ENTITIES \notin DOMAIN message THEN "TypeError"
       ELSE LET required_entities ==
                    [i \in DOMAIN map[intent_name] |->
                        extract_relevant_keys(map[intent_name][i])]
                predicted_entities ==
                    [i \in DOMAIN message[ENTITIES] |->
                        extract_relevant_keys(message[ENTITIES][i])]
                extra_entities == ListMinus(predicted_entities, required_entities)
                missing_entities == ListMinus(required_entities, predicted_entities)
            IN IF Len(extra_entities) > 0 \/ Len(missing_entities) > 0
               THEN "False"
               ELSE "True"

\* the same checks with the thresholds consulted before the exclusion list
remaining_checks_thresholds_first(config, map, message) ==
    LET above == is_above_thresholds(config, message)
    IN IF above = "False" THEN "False"
       ELSE IF above # "True" THEN above
       ELSE IF intent_is_excluded(config, message) = "True" THEN "False"
       ELSE IF ~config[REQUIRE_ENTITIES_ENABLED_KEY] THEN "True"
       ELSE contains_required_entities(map, message)

\* lines 141-157: the checks that follow the enabled and is_final ones
remaining_checks(config, map, message) ==
    IF intent_is_excluded(config, message) = "True" THEN "False"
    ELSE LET above == is_above_thresholds(config, message)
         IN IF above = "False" THEN "False"
            ELSE IF above # "True" THEN above
            ELSE IF ~config[REQUIRE_ENTITIES_ENABLED_KEY] THEN "True"
            ELSE contains_required_entities(map, message)

\* __full_utterance_detected without its enabled check
full_utterance_detected_always_enabled(config, map, message) ==
    IF config[FORCE_FINAL_ENABLED_KEY] /\ Get(message, IS_FINAL, FALSE) THEN "True"
    ELSE remaining_checks(config, map, message)

\* __full_utterance_detected with the exclusion check ahead of the is_final one
full_utterance_detected_exclusion_first(config, map, message) ==
    IF ~config[ENABLED_KEY] THEN "True"
    ELSE IF intent_is_excluded(config, message) = "True" THEN "False"
    ELSE IF config[FORCE_FINAL_ENABLED_KEY] /\ Get(message, IS_FINAL, FALSE) THEN "True"
    ELSE remaining_checks(config, map, message)

full_utterance_detected(config, map, message) ==
    IF ~config[ENABLED_KEY] THEN "True"
    ELSE IF config[FORCE_FINAL_ENABLED_KEY] /\ Get(message, IS_FINAL, FALSE) THEN "True"
    ELSE remaining_checks(config, map, message)

-----------------------------------------------------------------------------
(* process *)

\* the rewrite with the rejection intent appended to the ranking
reject_appending(config, message) ==
    LET confidence == config[THRESHOLDS_KEY][DEFAULT_THRESHOLD_KEY]
        m1 == DictSet(message, INTENT, reject_intent(confidence))
        m2 == IF INTENT_RANKING_KEY \in DOMAIN m1 THEN m1
              ELSE DictSet(m1, INTENT_RANKING_KEY, <<>>)
    IN DictSet(m2, INTENT_RANKING_KEY,
               m2[INTENT_RANKING_KEY] \o <<reject_intent(confidence)>>)

\* the rewrite building the message anew from the rejection intent
reject_rebuilding(config, message) ==
    LET confidence == config[THRESHOLDS_KEY][DEFAULT_THRESHOLD_KEY]
    IN [text |-> message[TEXT],
        intent |-> reject_intent(confidence),
        intent_ranking |-> <<reject_intent(confidence)>>
                              \o Get(message, INTENT_RANKING_KEY, <<>>)]

\* lines 105-108: the rewrite of a message that is not a full utterance
reject(config, message) ==
    LET confidence == config[THRESHOLDS_KEY][DEFAULT_THRESHOLD_KEY]
        m1 == DictSet(message, INTENT, reject_intent(confidence))
        m2 == IF INTENT_RANKING_KEY \in DOMAIN m1 THEN m1
              ELSE DictSet(m1, INTENT_RANKING_KEY, <<>>)
    IN DictSet(m2, INTENT_RANKING_KEY,
               <<reject_intent(confidence)>> \o m2[INTENT_RANKING_KEY])

Unreached(todo) == [i \in DOMAIN todo |-> "unreached"]

RECURSIVE process_loop(_, _, _, _, _)
\* for message in messages: ...   done: the messages already visited, as they
\* are now; seen: what happened to each ("accepted", "rejected", or the
\* exception that ended the call; "unreached" for the messages after it)
process_loop(config, map, todo, done, seen) ==
    IF todo = <<>> THEN [messages |-> done, verdicts |-> seen]
    ELSE LET message == Head(todo)
             full == full_utterance_detected(config, map, message)
         IN IF full = "True"
            THEN process_loop(config, map, Tail(todo),
                              done \o <<message>>, seen \o <<"accepted">>)
            ELSE IF full = "False"
            THEN IF DEFAULT_THRESHOLD_KEY \notin DOMAIN config[THRESHOLDS_KEY]
                 THEN [messages |-> done \o todo,
                       verdicts |-> seen \o <<"KeyError">> \o Unreached(Tail(todo))]
                 ELSE process_loop(config, map, Tail(todo),
                                   done \o <<reject(config, message)>>,
                                   seen \o <<"rejected">>)
            ELSE [messages |-> done \o todo,
                  verdicts |-> seen \o <<full>> \o Unreached(Tail(todo))]

Returned(seen) == \A i \in DOMAIN seen : seen[i] \in {"accepted", "rejected"}

\* process(messages, domain), called on the list the caller holds
Process(domain) ==
    /\ calls < MaxCalls
    /\ LET map == process_domain(intent_required_entities_map, domain)
           run == process_loop(component_config, map, messages, <<>>, <<>>)
       IN /\ intent_required_entities_map' = map
          /\ messages' = run.messages
          /\ verdicts' = run.verdicts
          /\ outcome' = IF Returned(run.verdicts) THEN "returned" ELSE "raised"
    /\ prev_messages' = messages
    /\ prev_verdicts' = verdicts
    /\ first_domain' = IF first_domain = None THEN domain ELSE first_domain
    /\ last_domain' = domain
    /\ calls' = calls + 1
    /\ UNCHANGED <<supplied_config, component_config>>

-----------------------------------------------------------------------------
(* Inputs *)

\* the options a pipeline configuration can give the component: each key is
\* either left out or set to a value that differs from its default
Optional(key, values) == {<<>>} \cup {key :> v : v \in values}

ThresholdConfigs ==
    {[default |-> 70],
     [default |-> 70, custom |-> [greet |-> 60]],
     [default |-> 70, ambiguity_threshold |-> 10, custom |-> [greet |-> 80]]}

Configs ==
    {a @@ b @@ c @@ d @@ e :
        a \in Optional(ENABLED_KEY, {FALSE}),
        b \in Optional(FORCE_FINAL_ENABLED_KEY, {FALSE}),
        c \in Optional(REQUIRE_ENTITIES_ENABLED_KEY, {FALSE}),
        d \in Optional(EXCLUDED_INTENTS_KEY, {<<"greet">>}),
        e \in Optional(THRESHOLDS_KEY, ThresholdConfigs)}

SeqsUpTo(S, n) == UNION {[1..k -> S] : k \in 0..n}

IntentNames == {"greet", "nlu_fallback"}
Confidences == {68, 75, 100}

RankingEntries ==
    {[name |-> "greet", confidence |-> 100],
     [name |-> "stop", confidence |-> 75],
     [name |-> "stop"]}

EntityValues == {[entity |-> "required_entity"], [entity |-> "other_entity"]}

RequireEntitiesDeclarations == {<<>>, <<[entity |-> "required_entity"]>>}

\* the intent prediction, with or without the require_entities the tests put on it
Intents ==
    {[name |-> n, confidence |-> c] @@ r :
        n \in IntentNames, c \in Confidences,
        r \in Optional(REQUIRE_ENTITIES_KEY, RequireEntitiesDeclarations)}

PlainIntents == {i \in Intents : REQUIRE_ENTITIES_KEY \notin DOMAIN i}

\* messages that vary in their ranking and carry no entities, as the tests'
\* first three
RankingMessages ==
    {[intent |-> i] @@ f @@ r :
        i \in PlainIntents,
        f \in Optional(IS_FINAL, {TRUE}),
        r \in Optional(INTENT_RANKING_KEY, SeqsUpTo(RankingEntries, MaxRanking))}

\* messages that vary in their entities, ranked as the tests' last four
EntityMessages ==
    {[intent |-> i,
      intent_ranking |-> <<[name |-> i.name, confidence |-> i.confidence]>>] @@ f @@ e :
        i \in Intents,
        f \in Optional(IS_FINAL, {TRUE}),
        e \in {ENTITIES :> l : l \in SeqsUpTo(EntityValues, MaxEntities)}}

\* the messages of the longer lists
BatchMessages ==
    {[intent |-> [name |-> n, confidence |-> c]] @@ e :
        n \in IntentNames, c \in {68, 100},
        e \in Optional(ENTITIES, {<<[entity |-> "required_entity"]>>})}

Texts == <<"some message", "another message", "a third message", "a fourth message">>

WithTexts(batch) == [i \in DOMAIN batch |-> (TEXT :> Texts[i]) @@ batch[i]]

Batches ==
    {WithTexts(b) : b \in [1..1 -> RankingMessages \cup EntityMessages]
                          \cup UNION {[1..k -> BatchMessages] : k \in 2..MaxBatch}}

\* domain.as_dict(): what a domain file declares
DomainRequired ==
    [intents |-> <<[str |-> "stop"],
                   [dict |-> [greet |-> [require_entities |->
                                            <<[str |-> "required_entity"]>>]]]>>]
DomainNoRequirements ==
    [intents |-> <<[str |-> "greet"],
                   [dict |-> [stop |-> [use_entities |-> TRUE]]]>>]
DomainEmptyRequirement ==
    [intents |-> <<[dict |-> [greet |-> [require_entities |-> <<>>]]]>>]

Domains == {DomainRequired, DomainNoRequirements, DomainEmptyRequirement}

-----------------------------------------------------------------------------
(* The state machine *)

Init ==
    /\ supplied_config \in Configs
    /\ component_config = create(supplied_config)
    /\ intent_required_entities_map = <<>>
    /\ messages \in Batches
    /\ outcome = "constructed"
    /\ prev_messages = messages
    /\ verdicts = <<>>
    /\ prev_verdicts = <<>>
    /\ first_domain = None
    /\ last_domain = None
    /\ calls = 0

Next == \E domain \in Domains \cup {None} : Process(domain)

Spec == Init /\ [][Next]_vars

-----------------------------------------------------------------------------
(* The threshold evaluator on its own: one message per list, no domain.  The *)
(* confidences and thresholds are multiples of 0.25, which binary floating   *)
(* point holds exactly, as it does their differences: the comparisons of     *)
(* lines 257-259 and 266 come out in hundredths as they do in floats.        *)

EvaluatorThresholds ==
    {[default |-> 75],
     [default |-> 75, ambiguity_threshold |-> 25],
     [default |-> 75, ambiguity_threshold |-> 25, custom |-> [stop |-> 100]]}

EvaluatorConfigs ==
    {d @@ e :
        d \in Optional(EXCLUDED_INTENTS_KEY, {<<"affirm">>}),
        e \in Optional(THRESHOLDS_KEY, EvaluatorThresholds)}

EvaluatorRankingEntries ==
    {[name |-> "greet", confidence |-> 100],
     [name |-> "stop", confidence |-> 75],
     [name |-> "stop"],
     [name |-> "affirm", confidence |-> 50],
     [name |-> "nlu_fallback", confidence |-> 100]}

EvaluatorMessages ==
    {[intent |-> [name |-> n, confidence |-> c]] @@ r :
        n \in {"greet", "stop"}, c \in {50, 75, 100},
        r \in Optional(INTENT_RANKING_KEY,
                       SeqsUpTo(EvaluatorRankingEntries, MaxEvaluatorRanking))}

InitThresholds ==
    /\ supplied_config \in EvaluatorConfigs
    /\ component_config = create(supplied_config)
    /\ intent_required_entities_map = <<>>
    /\ messages \in {WithTexts(<<m>>) : m \in EvaluatorMessages}
    /\ outcome = "constructed"
    /\ prev_messages = messages
    /\ verdicts = <<>>
    /\ prev_verdicts = <<>>
    /\ first_domain = None
    /\ last_domain = None
    /\ calls = 0

NextThresholds == Process(None)

SpecThresholds == InitThresholds /\ [][NextThresholds]_vars

-----------------------------------------------------------------------------
(* The entity check on its own: one confident message per list, domains     *)
(* whose require_entities name types, roles and groups, some of them twice.  *)

PredictedEntityValues ==
    {[entity |-> "date"],
     [entity |-> "date", role |-> "birthdate"],
     [entity |-> "date", role |-> "birthdate", group |-> "1", value |-> "today"],
     [entity |-> "city", value |-> "Rome"]}

CheckedMessages ==
    {[intent |-> [name |-> n, confidence |-> 100]] @@ e :
        n \in {"greet", "stop"},
        e \in Optional(ENTITIES, SeqsUpTo(PredictedEntityValues, MaxPredicted))}

\* the declarations of the comment of line 121: [], ['date'], or
\* [{"entity": "date", "role": "birthdate"}]
DomainBareType ==
    [intents |-> <<[dict |-> [greet |-> [require_entities |-> <<[str |-> "date"]>>]]]>>]
DomainRoles ==
    [intents |-> <<[str |-> "stop"],
                   [dict |-> [greet |-> [require_entities |->
                        <<[dict |-> [entity |-> "date", role |-> "birthdate"]],
                          [str |-> "city"]>>]]]>>]
DomainGroups ==
    [intents |-> <<[dict |-> [greet |-> [require_entities |->
                        <<[dict |-> [entity |-> "date", role |-> "birthdate",
                                     group |-> "1"]],
                          [str |-> "date"]>>]]]>>]
DomainRepeated ==
    [intents |-> <<[dict |-> [greet |-> [require_entities |->
                        <<[str |-> "city"], [str |-> "date"], [str |-> "city"]>>]]]>>]

CheckedDomains ==
    {DomainBareType, DomainRoles, DomainGroups, DomainRepeated,
     DomainEmptyRequirement, DomainNoRequirements}

InitEntities ==
    /\ supplied_config \in Optional(REQUIRE_ENTITIES_ENABLED_KEY, {FALSE})
    /\ component_config = create(supplied_config)
    /\ intent_required_entities_map = <<>>
    /\ messages \in {WithTexts(<<m>>) : m \in CheckedMessages}
    /\ outcome = "constructed"
    /\ prev_messages = messages
    /\ verdicts = <<>>
    /\ prev_verdicts = <<>>
    /\ first_domain = None
    /\ last_domain = None
    /\ calls = 0

NextEntities == \E domain \in CheckedDomains \cup {None} : Process(domain)

SpecEntities == InitEntities /\ [][NextEntities]_vars

-----------------------------------------------------------------------------
(* The index built from domains whose require_entities hold an element that *)
(* is neither a string nor a mapping.                                        *)

DomainMalformedNumber ==
    [intents |-> <<[dict |-> [greet |-> [require_entities |->
                        <<[str |-> "date"], [other |-> "7"]>>]]]>>]
DomainMalformedNull ==
    [intents |-> <<[str |-> "stop"],
                   [dict |-> [greet |-> [require_entities |-> <<[other |-> "null"]>>]]]>>]

IndexedDomains ==
    {DomainMalformedNumber, DomainMalformedNull, DomainBareType, DomainNoRequirements}

InitIndex ==
    /\ supplied_config \in Optional(REQUIRE_ENTITIES_ENABLED_KEY, {FALSE})
    /\ component_config = create(supplied_config)
    /\ intent_required_entities_map = <<>>
    /\ messages \in {WithTexts(<<m>>) : m \in CheckedMessages}
                      \cup {WithTexts(b) : b \in [1..2 -> BatchMessages]}
    /\ outcome = "constructed"
    /\ prev_messages = messages
    /\ verdicts = <<>>
    /\ prev_verdicts = <<>>
    /\ first_domain = None
    /\ last_domain = None
    /\ calls = 0

NextIndex == \E domain \in IndexedDomains \cup {None} : Process(domain)

SpecIndex == InitIndex /\ [][NextIndex]_vars

-----------------------------------------------------------------------------
(* Properties *)

\* what the last call did with message i
Rejected(i) == i \in DOMAIN verdicts /\ verdicts[i] = "rejected"
Accepted(i) == i \in DOMAIN verdicts /\ verdicts[i] = "accepted"
\* the loop of the last call got as far as message i
Reached(i) == i \in DOMAIN verdicts /\ verdicts[i] # "unreached"

RejectionIntent ==
    [name |-> DEFAULT_UTTERANCE_REJECTION_INTENT_NAME,
     confidence |-> component_config[THRESHOLDS_KEY][DEFAULT_THRESHOLD_KEY]]

OldRanking(i) == Get(prev_messages[i], INTENT_RANKING_KEY, <<>>)

ForceAccepted(i) ==
    component_config[FORCE_FINAL_ENABLED_KEY] /\ Get(prev_messages[i], IS_FINAL, FALSE)

Excluded(i) ==
    prev_messages[i][INTENT][INTENT_NAME_KEY]
        \in Range(component_config[EXCLUDED_INTENTS_KEY])

\* C1: a message that process rejects has the rejection intent (the sentinel
\* name, the configured thresholds.default as confidence) as its whole intent,
\* and its ranking is that same intent followed by the old ranking, entry for
\* entry (a missing ranking counting as empty).
C1_RejectionRewrite ==
    \A i \in DOMAIN verdicts :
        Rejected(i) =>
            /\ messages[i][INTENT] = RejectionIntent
            /\ Len(messages[i][INTENT_RANKING_KEY]) = Len(OldRanking(i)) + 1
            /\ messages[i][INTENT_RANKING_KEY][1] = RejectionIntent
            /\ \A j \in DOMAIN OldRanking(i) :
                  messages[i][INTENT_RANKING_KEY][j + 1] = OldRanking(i)[j]

\* a rejected message whose old ranking held the same entry twice, under a
\* configured thresholds.default
C1_Witness ==
    \E i \in DOMAIN verdicts :
        /\ Rejected(i)
        /\ Len(OldRanking(i)) = 2
        /\ OldRanking(i)[1] = OldRanking(i)[2]
        /\ component_config[THRESHOLDS_KEY][DEFAULT_THRESHOLD_KEY] = 70

\* C2: with the component enabled, a message that is not force-accepted and
\* whose intent name is in excluded_intents is rejected by every call that
\* gets to it, whatever its confidence, ranking and entities.
C2_ExcludedRejected ==
    \A i \in DOMAIN verdicts :
        (/\ Reached(i)
         /\ component_config[ENABLED_KEY]
         /\ ~ForceAccepted(i)
         /\ Excluded(i))
        => /\ Rejected(i)
           /\ messages[i][INTENT] = RejectionIntent

\* an excluded intent of confidence 1.0 that passes its custom threshold and
\* whose entities are exactly the ones the index requires, rejected
C2_Witness ==
    \E i \in DOMAIN verdicts :
        /\ Rejected(i)
        /\ Excluded(i)
        /\ prev_messages[i][INTENT][PREDICTED_CONFIDENCE_KEY] = 100
        /\ CUSTOM_THRESHOLDS_KEY \in DOMAIN component_config[THRESHOLDS_KEY]
        /\ prev_messages[i][INTENT][INTENT_NAME_KEY]
              \in DOMAIN component_config[THRESHOLDS_KEY][CUSTOM_THRESHOLDS_KEY]
        /\ component_config[REQUIRE_ENTITIES_ENABLED_KEY]
        /\ prev_messages[i][INTENT][INTENT_NAME_KEY] \in DOMAIN intent_required_entities_map
        /\ contains_required_entities(intent_required_entities_map, prev_messages[i]) = "True"

\* C3: with enabled false every message is accepted and left as it was.
C3_DisabledAccepts ==
    ~component_config[ENABLED_KEY] =>
        \A i \in DOMAIN verdicts : Accepted(i) /\ messages[i] = prev_messages[i]

\* a disabled component accepting a message of an excluded intent, below the
\* default threshold, not final
C3_Witness ==
    /\ ~component_config[ENABLED_KEY]
    /\ \E i \in DOMAIN verdicts :
          /\ Accepted(i)
          /\ Excluded(i)
          /\ ~Get(prev_messages[i], IS_FINAL, FALSE)
          /\ prev_messages[i][INTENT][PREDICTED_CONFIDENCE_KEY]
                < component_config[THRESHOLDS_KEY][DEFAULT_THRESHOLD_KEY]

\* C4: under force_final_enabled a message with is_final true is accepted and
\* left as it was, also when its intent is excluded.
C4_ForcedFinalAccepts ==
    \A i \in DOMAIN verdicts :
        ForceAccepted(i) => Accepted(i) /\ messages[i] = prev_messages[i]

\* an enabled component accepting a final message whose intent is excluded
C4_Witness ==
    /\ component_config[ENABLED_KEY]
    /\ \E i \in DOMAIN verdicts :
          ForceAccepted(i) /\ Accepted(i) /\ Excluded(i)

\* C5 (as claimed): with the sentinel excluded, a second call on a message
\* that the call before rejected rejects it again and leaves its intent and
\* its intent_ranking as the first call left them.
C5_RerunChangesNothing ==
    \A i \in DOMAIN verdicts :
        (/\ i \in DOMAIN prev_verdicts
         /\ prev_verdicts[i] = "rejected"
         /\ Reached(i)
         /\ DEFAULT_UTTERANCE_REJECTION_INTENT_NAME
               \in Range(component_config[EXCLUDED_INTENTS_KEY]))
        => /\ Rejected(i)
           /\ messages[i][INTENT] = prev_messages[i][INTENT]
           /\ messages[i][INTENT_RANKING_KEY] = prev_messages[i][INTENT_RANKING_KEY]

\* the last call was a second call on message i, which the call before had
\* rejected, under a configuration that excludes the sentinel
RejectedBefore(i) ==
    /\ i \in DOMAIN prev_verdicts
    /\ prev_verdicts[i] = "rejected"
    /\ Reached(i)
    /\ DEFAULT_UTTERANCE_REJECTION_INTENT_NAME
          \in Range(component_config[EXCLUDED_INTENTS_KEY])

\* C5 (amended): the second call rejects the message again with the same
\* intent, and puts one more copy of the rejection intent in front of the
\* ranking the first call left.
C5_RerunRejectsAgain ==
    \A i \in DOMAIN verdicts :
        RejectedBefore(i)
        => /\ Rejected(i)
           /\ messages[i][INTENT] = prev_messages[i][INTENT]
           /\ prev_messages[i][INTENT] = RejectionIntent
           /\ messages[i][INTENT_RANKING_KEY]
                 = <<RejectionIntent>> \o prev_messages[i][INTENT_RANKING_KEY]

\* a message rejected by two calls in a row, the first of which found it
\* with a ranking of its own
C5_Witness ==
    \E i \in DOMAIN verdicts :
        /\ RejectedBefore(i)
        /\ Rejected(i)
        /\ Len(messages[i][INTENT_RANKING_KEY]) >= 3
        /\ messages[i][INTENT_RANKING_KEY][3] # RejectionIntent

\* C6 (as claimed): once a domain has been supplied, the index is the one
\* built from the first domain supplied, whatever that domain declares.
C6_IndexFromFirstDomain ==
    first_domain # None =>
        intent_required_entities_map = process_domain_intents(<<>>, first_domain[KEY_INTENTS])

\* C7: a process call that begins with a non-empty index leaves the index as
\* it is.
C7_CacheOnce ==
    [][intent_required_entities_map # <<>>
          => intent_required_entities_map' = intent_required_entities_map]_vars

\* a call that was handed a domain declaring other requirements than the
\* index, built by an earlier call, holds
C7_Witness ==
    /\ first_domain # None
    /\ last_domain # None
    /\ last_domain # first_domain
    /\ process_domain_intents(<<>>, first_domain[KEY_INTENTS]) # <<>>
    /\ process_domain_intents(<<>>, last_domain[KEY_INTENTS]) # <<>>
    /\ process_domain_intents(<<>>, last_domain[KEY_INTENTS])
          # intent_required_entities_map

\* the old ranking of message i without the entries of excluded intents
Remaining(i) ==
    LET old == OldRanking(i)
        keep == {j \in DOMAIN old :
                    old[j][INTENT_NAME_KEY]
                        \notin Range(component_config[EXCLUDED_INTENTS_KEY])}
        nth(k) == CHOOSE j \in keep : Cardinality({l \in keep : l < j}) = k - 1
    IN [k \in 1..Cardinality(keep) |-> old[nth(k)]]

EntryConfidence(entry) ==
    IF PREDICTED_CONFIDENCE_KEY \in DOMAIN entry THEN entry[PREDICTED_CONFIDENCE_KEY] ELSE 100

\* the gap between the first two remaining entries is below the ambiguity threshold
Ambiguous(i) ==
    /\ Len(Remaining(i)) >= 2
    /\ EntryConfidence(Remaining(i)[1]) - EntryConfidence(Remaining(i)[2])
          < component_config[THRESHOLDS_KEY][AMBIGUITY_THRESHOLD_KEY]

HasCustomThreshold(i) ==
    /\ CUSTOM_THRESHOLDS_KEY \in DOMAIN component_config[THRESHOLDS_KEY]
    /\ prev_messages[i][INTENT][INTENT_NAME_KEY]
          \in DOMAIN component_config[THRESHOLDS_KEY][CUSTOM_THRESHOLDS_KEY]

CustomThreshold(i) ==
    component_config[THRESHOLDS_KEY][CUSTOM_THRESHOLDS_KEY]
        [prev_messages[i][INTENT][INTENT_NAME_KEY]]

OldConfidence(i) == prev_messages[i][INTENT][PREDICTED_CONFIDENCE_KEY]

\* the call's verdict on message i is the threshold evaluator's: the message
\* got past the enabled, is_final and exclusion checks, and an ambiguity
\* threshold is there to be read if the ranking asks for one
ThresholdsDecide(i) ==
    /\ Reached(i)
    /\ component_config[ENABLED_KEY]
    /\ ~ForceAccepted(i)
    /\ ~Excluded(i)
    /\ \/ Len(Remaining(i)) < 2
       \/ AMBIGUITY_THRESHOLD_KEY \in DOMAIN component_config[THRESHOLDS_KEY]

\* the entity check cannot turn the evaluator's pass into a rejection
EntitiesPass(i) ==
    \/ ~component_config[REQUIRE_ENTITIES_ENABLED_KEY]
    \/ prev_messages[i][INTENT][INTENT_NAME_KEY] \notin DOMAIN intent_required_entities_map

\* C8 (as claimed): a message at or above the custom threshold of its intent
\* passes the threshold evaluator, whatever its ranking.
C8_CustomBypassesAmbiguity ==
    \A i \in DOMAIN verdicts :
        (/\ ThresholdsDecide(i)
         /\ HasCustomThreshold(i)
         /\ OldConfidence(i) >= CustomThreshold(i)
         /\ EntitiesPass(i))
        => Accepted(i)

\* C8 (amended): for an intent with a custom threshold it is the default
\* threshold that is not consulted.  A confidence below the custom threshold
\* fails; a confidence at or above it (be it below thresholds.default) fails
\* exactly when the ranking is ambiguous.
C8_CustomReplacesDefaultOnly ==
    \A i \in DOMAIN verdicts :
        (ThresholdsDecide(i) /\ HasCustomThreshold(i))
        => /\ OldConfidence(i) < CustomThreshold(i) => Rejected(i)
           /\ (OldConfidence(i) >= CustomThreshold(i) /\ Ambiguous(i)) => Rejected(i)
           /\ (OldConfidence(i) >= CustomThreshold(i) /\ ~Ambiguous(i) /\ EntitiesPass(i))
                 => Accepted(i)

\* a message at or above its custom threshold, rejected for its ambiguous ranking
C8_Witness ==
    \E i \in DOMAIN verdicts :
        /\ ThresholdsDecide(i)
        /\ HasCustomThreshold(i)
        /\ OldConfidence(i) >= CustomThreshold(i)
        /\ Ambiguous(i)
        /\ EntitiesPass(i)
        /\ Rejected(i)

\* the intent's own require_entities and the predicted entities, as
\* (type, role, group)
DeclaredEntities(i) ==
    {extract_relevant_keys(e) : e \in Range(prev_messages[i][INTENT][REQUIRE_ENTITIES_KEY])}
PredictedEntities(i) ==
    {extract_relevant_keys(e) : e \in Range(Get(prev_messages[i], ENTITIES, <<>>))}

\* C9 (as claimed): with require_entities_enabled, a classifier that was never
\* handed a domain rejects a message that is above all thresholds and whose
\* intent declares require_entities that the predicted entities do not match
\* exactly.
C9_DeclaredEntitiesEnforced ==
    \A i \in DOMAIN verdicts :
        (/\ first_domain = None
         /\ component_config[REQUIRE_ENTITIES_ENABLED_KEY]
         /\ ThresholdsDecide(i)
         /\ is_above_thresholds(component_config, prev_messages[i]) = "True"
         /\ REQUIRE_ENTITIES_KEY \in DOMAIN prev_messages[i][INTENT]
         /\ DeclaredEntities(i) # PredictedEntities(i))
        => Rejected(i)

\* what the last call left of the messages it was given
FrameOfProcess ==
    /\ Len(messages) = Len(prev_messages)
    /\ \A i \in DOMAIN messages :
          /\ messages[i][TEXT] = Texts[i]
          /\ ~Rejected(i) => messages[i] = prev_messages[i]
          /\ Rejected(i) =>
                /\ DOMAIN messages[i] = DOMAIN prev_messages[i] \cup {INTENT_RANKING_KEY}
                /\ \A k \in DOMAIN prev_messages[i] \ {INTENT, INTENT_RANKING_KEY} :
                      messages[i][k] = prev_messages[i][k]

\* C10: process hands back the messages it was given, in their order; the
\* ones it accepted are as they were, the ones it rejected differ in intent
\* and intent_ranking alone; component_config never changes.
C10_Frame ==
    /\ []FrameOfProcess
    /\ [][component_config' = component_config]_vars

\* a call that returned, having rejected a message and accepted another
C10_Witness ==
    /\ outcome = "returned"
    /\ \E i, j \in DOMAIN verdicts : Rejected(i) /\ Accepted(j)
    /\ \E i \in DOMAIN verdicts :
          Rejected(i) /\ DOMAIN prev_messages[i] \ {INTENT, INTENT_RANKING_KEY, TEXT} # {}

\* the documented default of the thresholds key t, or the supplied value
EffectiveThreshold(t) ==
    Get(Get(supplied_config, THRESHOLDS_KEY, <<>>), t,
        get_default_config[THRESHOLDS_KEY][t])

\* C11 (as claimed): in the effective configuration every supplied option has
\* its supplied value and every option left out has its default, each key
\* under thresholds by itself; from an empty configuration it is the
\* defaults, with no unexpected_upon_requested_slot threshold.
C11_MergedOverDefaults ==
    /\ \A k \in DOMAIN get_default_config \ {THRESHOLDS_KEY} :
          /\ k \in DOMAIN component_config
          /\ component_config[k] = Get(supplied_config, k, get_default_config[k])
    /\ \A t \in DOMAIN get_default_config[THRESHOLDS_KEY] :
          /\ t \in DOMAIN component_config[THRESHOLDS_KEY]
          /\ component_config[THRESHOLDS_KEY][t] = EffectiveThreshold(t)
    /\ supplied_config = <<>> =>
          /\ component_config = get_default_config
          /\ UNEXPECTED_UPON_REQUESTED_SLOT_KEY
                \notin DOMAIN component_config[THRESHOLDS_KEY]

\* the effective thresholds hold the two keys the evaluator reads for an
\* intent without a custom threshold
BothThresholds ==
    {DEFAULT_THRESHOLD_KEY, AMBIGUITY_THRESHOLD_KEY}
        \subseteq DOMAIN component_config[THRESHOLDS_KEY]

BelowDefault(i) ==
    OldConfidence(i) < component_config[THRESHOLDS_KEY][DEFAULT_THRESHOLD_KEY]

\* C12: for an intent without a custom threshold, under thresholds that hold
\* default and ambiguity_threshold, the threshold evaluator returns False
\* exactly when the confidence is below thresholds.default, or two or more
\* ranking entries are left once the excluded intents' are removed and the
\* first two of them are less than the ambiguity threshold apart (an entry
\* without confidence counting as 1.0); it returns True otherwise, and the
\* call rejects or accepts accordingly when nothing else decides.
C12_DefaultAndAmbiguity ==
    \A i \in DOMAIN verdicts :
        (Reached(i) /\ ~HasCustomThreshold(i) /\ BothThresholds)
        => LET above == is_above_thresholds(component_config, prev_messages[i])
           IN /\ above \in {"True", "False"}
              /\ above = "False" <=> (BelowDefault(i) \/ Ambiguous(i))
              /\ (ThresholdsDecide(i) /\ EntitiesPass(i))
                    => (Rejected(i) <=> (BelowDefault(i) \/ Ambiguous(i)))

\* a message accepted with its confidence equal to thresholds.default and
\* the first two entries left of its ranking exactly the ambiguity threshold
\* apart, an excluded intent's entry having been removed from between them
C12_Witness ==
    \E i \in DOMAIN verdicts :
        /\ Accepted(i)
        /\ ThresholdsDecide(i)
        /\ ~HasCustomThreshold(i)
        /\ BothThresholds
        /\ OldConfidence(i) = component_config[THRESHOLDS_KEY][DEFAULT_THRESHOLD_KEY]
        /\ Len(Remaining(i)) >= 2
        /\ OldRanking(i)[2] # Remaining(i)[2]
        /\ EntryConfidence(Remaining(i)[1]) - EntryConfidence(Remaining(i)[2])
              = component_config[THRESHOLDS_KEY][AMBIGUITY_THRESHOLD_KEY]

\* (type, role, group) of an entity, what is absent read as None
Projection(entity) ==
    <<Get(entity, ENTITY_ATTRIBUTE_TYPE, NoneStr),
      Get(entity, ENTITY_ATTRIBUTE_ROLE, NoneStr),
      Get(entity, ENTITY_ATTRIBUTE_GROUP, NoneStr)>>

OldIntentName(i) == prev_messages[i][INTENT][INTENT_NAME_KEY]

RequiredTuples(i) ==
    {Projection(e) : e \in Range(intent_required_entities_map[OldIntentName(i)])}
PredictedTuples(i) ==
    {Projection(e) : e \in Range(prev_messages[i][ENTITIES])}

\* the call's verdict on message i is the entity check's
EntitiesDecide(i) ==
    /\ ThresholdsDecide(i)
    /\ is_above_thresholds(component_config, prev_messages[i]) = "True"
    /\ component_config[REQUIRE_ENTITIES_ENABLED_KEY]

\* C13: for an intent without an entry in the index the entity check returns
\* True, whatever the message holds; for an intent with an entry and a
\* message with an entities list it returns True exactly when the set of
\* (type, role, group) of the required entities is the set of (type, role,
\* group) of the predicted ones, and False otherwise; the call accepts or
\* rejects accordingly when the check is what decides.
C13_EntitySetsEqual ==
    \A i \in DOMAIN verdicts :
        Reached(i)
        => LET check == contains_required_entities(intent_required_entities_map,
                                                   prev_messages[i])
               indexed == OldIntentName(i) \in DOMAIN intent_required_entities_map
           IN /\ ~indexed => check = "True"
              /\ (indexed /\ ENTITIES \in DOMAIN prev_messages[i])
                    => /\ check \in {"True", "False"}
                       /\ check = "True" <=> RequiredTuples(i) = PredictedTuples(i)
                       /\ EntitiesDecide(i)
                             => (Accepted(i) <=> RequiredTuples(i) = PredictedTuples(i))
              /\ (~indexed /\ EntitiesDecide(i)) => Accepted(i)

\* a message accepted by the entity check, one of its two kinds of entity
\* predicted twice and one of them with a role
C13_Witness ==
    \E i \in DOMAIN verdicts :
        /\ Accepted(i)
        /\ EntitiesDecide(i)
        /\ OldIntentName(i) \in DOMAIN intent_required_entities_map
        /\ ENTITIES \in DOMAIN prev_messages[i]
        /\ Cardinality(PredictedTuples(i)) = 2
        /\ Len(prev_messages[i][ENTITIES]) = 3
        /\ \E e \in PredictedTuples(i) : e[2] # NoneStr

\* the domain declares, for some intent, a require_entities element that is
\* neither a string nor a mapping
Malformed(domain) ==
    \E k \in DOMAIN domain[KEY_INTENTS] :
        LET domain_intent == domain[KEY_INTENTS][k]
        IN /\ "dict" \in DOMAIN domain_intent
           /\ \E n \in DOMAIN domain_intent["dict"] :
                 LET value == domain_intent["dict"][n]
                 IN /\ REQUIRE_ENTITIES_KEY \in DOMAIN value
                    /\ \E j \in DOMAIN value[REQUIRE_ENTITIES_KEY] :
                          DOMAIN value[REQUIRE_ENTITIES_KEY][j] \cap {"str", "dict"} = {}

\* C14 (as claimed): a malformed require_entities element is never stored in
\* the index; the first call handed a domain that holds one fails before it
\* evaluates any message, and no call fails on the element while evaluating
\* a message.
C14_MalformedFailsAtBuild ==
    /\ \A n \in DOMAIN intent_required_entities_map :
          None \notin Range(intent_required_entities_map[n])
    /\ \A i \in DOMAIN verdicts : verdicts[i] # "AttributeError"
    /\ (calls = 1 /\ last_domain # None /\ Malformed(last_domain))
          => /\ outcome = "raised"
             /\ \A i \in DOMAIN verdicts : verdicts[i] = "unreached"

=============================================================================
